---- MODULE Spec2Model ----
(***************************************************************************)
(* Study ingestion: the upload handler (Submit) and the import monitor     *)
(* (Poll) of phase1_ingestion, against the metadata table, the import      *)
(* service and the workflow engine they call.                              *)
(*                                                                         *)
(* Submit is one atomic action: the study id it generates is known to no   *)
(* other invocation before it returns.  Poll is split at its three remote  *)
(* calls (get_dicom_import_job, update_item, update_item), so that         *)
(* overlapping invocations interleave there.                               *)
(***************************************************************************)
EXTENDS Naturals, Sequences, FiniteSets

\* ------------------------------------------------------------------ bounds

\* Number of Submit invocations of a run.
MaxSubmits == 1
\* Number of Poll invocations that can be in flight at the same time.
NumPollers == 2
\* Number of Poll invocations of a run.
MaxPolls == 3

\* ------------------------------------------------------------ vocabulary

\* Python's None, and an attribute a DynamoDB item does not have.
None == "None"

\* uuid4 in the i-th Submit invocation: pairwise distinct identifiers.
StudyName == <<"STUDY-1", "STUDY-2", "STUDY-3", "STUDY-4">>
\* jobId the import service hands out to the i-th Submit invocation.
JobName == <<"JOB-1", "JOB-2", "JOB-3", "JOB-4">>

\* The ids a caller of Poll may name: those Submit generates, and one more
\* of each kind that no Submit generated and no job carries.
StudyIds == {StudyName[i] : i \in 1..(MaxSubmits + 1)}
JobIds == {JobName[i] : i \in 1..(MaxSubmits + 1)}
Pollers == 1..NumPollers

UPLOAD_BUCKET == "upload-bucket"
DATASTORE_ID == "datastore"

\* jobStatus values the import service reports: a job is created SUBMITTED,
\* becomes IN_PROGRESS and ends with one of the final values, which it
\* keeps.  The monitor names COMPLETED and FAILED only; PAUSED stands for a
\* value outside every vocabulary.
FinalStatus == {"COMPLETED", "FAILED", "CANCELLED", "PAUSED"}
\* What follows a status.
NextStatus(st) ==
    IF st = "SUBMITTED" THEN {"IN_PROGRESS"}
    ELSE IF st = "IN_PROGRESS" THEN FinalStatus
    ELSE {}

\* ------------------------------------------------------------- str.split

\* s.split('/') on a string given as its sequence of tokens, "/" being the
\* separator and every other token a run of non-separator characters:
\* the list of the fields between separators, "" for an empty field.
RECURSIVE SplitAcc(_, _, _)
SplitAcc(s, cur, acc) ==
    IF s = <<>> THEN Append(acc, cur)
    ELSE IF Head(s) = "/" THEN SplitAcc(Tail(s), "", Append(acc, cur))
    ELSE SplitAcc(Tail(s), Head(s), acc)

Split(s) == SplitAcc(s, "", <<>>)

\* f"s3://{UPLOAD_BUCKET}/healthimaging-output/{study_id}/"
OutputUri(study_id) ==
    <<"s3:", "/", "/", UPLOAD_BUCKET, "/", "healthimaging-output", "/", study_id, "/">>

\* jobProperties.get('outputS3Uri', ''): the empty string when the key is absent.
EmptyUri == <<>>

\* ------------------------------------------------------- metadata table

\* table.put_item(Item=item): the item replaces whatever the key held.
PutItem(tbl, key, item) ==
    [k \in DOMAIN tbl \cup {key} |-> IF k = key THEN item ELSE tbl[k]]

\* table.update_item(Key, 'SET a = :v, ...') with no ConditionExpression:
\* sets the attributes on the item, and creates the item (key attribute
\* only) when the key holds none.
UpdateItem(tbl, key, sets) ==
    LET old == IF key \in DOMAIN tbl THEN tbl[key] ELSE [study_id |-> key]
        new == [a \in DOMAIN old \cup DOMAIN sets |->
                   IF a \in DOMAIN sets THEN sets[a] ELSE old[a]]
    IN  [k \in DOMAIN tbl \cup {key} |-> IF k = key THEN new ELSE tbl[k]]

\* The value of an attribute of the item under key, None when there is no
\* such item or attribute.
Attr(tbl, key, a) ==
    IF key \in DOMAIN tbl /\ a \in DOMAIN tbl[key] THEN tbl[key][a] ELSE None

VARIABLES
    store,       \* the metadata table: study_id -> item (attribute -> value)
    jobs,        \* the import service: jobId -> [jobStatus, outputS3Uri]
    workflows,   \* the workflow engine: the inputs of the started executions
    nextId,      \* how many Submit invocations have begun
    lastSubmit,  \* the last Submit invocation: its request and its response
    pc,          \* per Poll invocation slot: where the handler stands
    local,       \* per Poll invocation slot: the handler's local variables
    result,      \* per Poll invocation slot: what the handler returned
    polls,       \* how many Poll invocations have begun
    scan         \* one run of the image analysis script: input and findings

vars == <<store, jobs, workflows, nextId, lastSubmit, pc, local, result, polls,
          scan>>

\* ------------------------------------------------------------------ Init

\* No Submit yet: the request and the response of an invocation that has
\* not happened.
NoSubmit == [body |-> "none", patient_id |-> None, file_key |-> None,
             head |-> "not_called", statusCode |-> 0, study_id |-> None]

\* A Poll slot with no invocation in it.
NoLocal == [study_id |-> None, import_job_id |-> None, prior |-> None,
            job_status |-> None, outputS3Uri |-> EmptyUri]
NoResult == [job_status |-> "PENDING"]

\* The analysis script has not been run.
NoScan == [pc |-> "none"]

\* A table, or a service, holding nothing.
Empty == [k \in {} |-> None]

\* Table, import service and workflow engine hold nothing and no handler
\* has been invoked.
Idle ==
    /\ store = Empty
    /\ jobs = Empty
    /\ workflows = {}
    /\ nextId = 0
    /\ lastSubmit = NoSubmit
    /\ pc = [p \in Pollers |-> "idle"]
    /\ local = [p \in Pollers |-> NoLocal]
    /\ result = [p \in Pollers |-> NoResult]
    /\ polls = 0

Init == Idle /\ scan = NoScan

\* ---------------------------------------------------------------- Submit

\* The request bodies: no 'body' key (the default '{}' is parsed), a body
\* json.loads or body.get raises on, and a JSON object whose two required
\* fields are each absent (None), empty or given.
PatientIds == {None, "", "P123456"}
FileKeys == {None, "", "uploads/sample_brain_ct.dcm"}
Requests ==
    {[body |-> "absent", patient_id |-> None, file_key |-> None],
     [body |-> "malformed", patient_id |-> None, file_key |-> None]}
    \cup [body : {"object"}, patient_id : PatientIds, file_key : FileKeys]

\* The remote call of Submit that raises, if any.
SubmitFaults == {"none", "start_dicom_import_job", "put_item", "start_execution"}

\* `x is None` in the place of `not x`: the empty string passes.
FalsyNoneOnly(x) == x = None

\* Python's `not x` on an str or None.
Falsy(x) == x = None \/ x = ""

\* `if not patient_id or not file_key`
MissingRequired(req) == Falsy(req.patient_id) \/ Falsy(req.file_key)

\* head_object in try / `except: pass`: the handler goes on either way.
HeadObjectIgnored(exists) == TRUE

\* s3_client.head_object in try / bare except: the object is taken to exist
\* exactly when the call does not raise.
HeadObjectOk(exists) == exists

\* The item Submit puts.  (upload_timestamp, study_description, s3_bucket and
\* s3_key are written too; nothing reads them.)
Metadata(study_id, req, job_id) ==
    [study_id |-> study_id,
     patient_id |-> req.patient_id,
     datastore_id |-> DATASTORE_ID,
     import_job_id |-> job_id,
     status |-> "IMPORTING",
     processing_stage |-> "ingestion"]

\* start_dicom_import_job: a new job, SUBMITTED, writing under the study's
\* output prefix.  (inputS3Uri, the folder of file_key, is read by nothing
\* here.)
StartJob(js, job_id, study_id) ==
    [j \in DOMAIN js \cup {job_id} |->
        IF j = job_id
        THEN [jobStatus |-> "SUBMITTED", outputS3Uri |-> OutputUri(study_id)]
        ELSE js[j]]

\* start_execution(input=json.dumps(metadata)): the execution, by the
\* fields of its input that Poll reads.
Execution(study_id, job_id) == [study_id |-> study_id, import_job_id |-> job_id]

\* What head_object found, by what the bucket holds.
HeadObject(exists) == IF exists THEN "found" ELSE "missing"

\* The return of the handler: lastSubmit holds the request, what the bucket
\* held when head_object was called, and the response.
Responded(req, head, code, sid) ==
    lastSubmit' = [body |-> req.body, patient_id |-> req.patient_id,
                   file_key |-> req.file_key, head |-> head,
                   statusCode |-> code, study_id |-> sid]

\* lambda_handler of the upload handler, start to return.  lastSubmit holds
\* the invocation until its response is delivered.
Submit(req, exists, fault) ==
    /\ lastSubmit = NoSubmit
    /\ nextId < MaxSubmits
    /\ nextId' = nextId + 1
    /\ IF req.body = "malformed"
       THEN \* json.loads / body.get raises: the outer except
            /\ Responded(req, "not_called", 500, None)
            /\ UNCHANGED <<store, jobs, workflows, pc, local, result, polls, scan>>
       ELSE IF MissingRequired(req)
       THEN /\ Responded(req, "not_called", 400, None)
            /\ UNCHANGED <<store, jobs, workflows, pc, local, result, polls, scan>>
       ELSE
         /\ UNCHANGED <<pc, local, result, polls, scan>>
         /\ LET study_id == StudyName[nextId + 1]
                job_id == JobName[nextId + 1]
                started == StartJob(jobs, job_id, study_id)
                saved == PutItem(store, study_id, Metadata(study_id, req, job_id))
            IN  IF ~HeadObjectOk(exists)
                THEN /\ Responded(req, HeadObject(exists), 404, study_id)
                     /\ UNCHANGED <<store, jobs, workflows>>
                ELSE IF fault = "start_dicom_import_job"
                THEN /\ Responded(req, HeadObject(exists), 500, study_id)
                     /\ UNCHANGED <<store, jobs, workflows>>
                ELSE IF fault = "put_item"
                THEN /\ Responded(req, HeadObject(exists), 500, study_id)
                     /\ jobs' = started
                     /\ UNCHANGED <<store, workflows>>
                ELSE IF fault = "start_execution"
                THEN /\ Responded(req, HeadObject(exists), 500, study_id)
                     /\ jobs' = started
                     /\ store' = saved
                     /\ UNCHANGED workflows
                ELSE /\ Responded(req, HeadObject(exists), 202, study_id)
                     /\ jobs' = started
                     /\ store' = saved
                     /\ workflows' = workflows \cup {Execution(study_id, job_id)}

\* The response reaches the client.
SubmitReturn ==
    /\ lastSubmit # NoSubmit
    /\ lastSubmit' = NoSubmit
    /\ UNCHANGED <<store, jobs, workflows, nextId, pc, local, result, polls, scan>>

\* ------------------------------------------------------- import service

\* The import service advances a job.
JobProgress(j, st) ==
    /\ j \in DOMAIN jobs
    /\ st \in NextStatus(jobs[j].jobStatus)
    /\ jobs' = [jobs EXCEPT ![j].jobStatus = st]
    /\ UNCHANGED <<store, workflows, nextId, lastSubmit, pc, local, result, polls, scan>>

\* ------------------------------------------------------------------ Poll

\* The events Poll is invoked with: study_id and import_job_id as the
\* caller gives them (datastore_id is the one datastore), or an event
\* lacking a field the handler reads.
Events ==
    [study_id : StudyIds, import_job_id : JobIds, complete : {TRUE}]
    \cup {[study_id |-> None, import_job_id |-> None, complete |-> FALSE]}

\* The except branch: the handler returns, it does not raise.
ExceptResult(e) ==
    [job_status |-> "ERROR", error |-> e, is_complete |-> FALSE, has_error |-> TRUE]

\* The return of the try block.
ReturnResult(study_id, import_job_id, job_status, image_set_id) ==
    [study_id |-> study_id,
     import_job_id |-> import_job_id,
     datastore_id |-> DATASTORE_ID,
     job_status |-> job_status,
     image_set_id |-> image_set_id,
     is_complete |-> (job_status = "COMPLETED"),
     has_error |-> (job_status = "FAILED")]

\* `except ClientError` in the place of `except Exception`.
CaughtClientErrorOnly(e) == e = "ClientError"

\* `except Exception`: KeyError, IndexError and botocore's ClientError all
\* derive from Exception.
Caught(e) == e \in {"KeyError", "IndexError", "ClientError"}

\* The try body raises e: the handler ends in its except branch, or the
\* exception reaches the caller.  (The handler's locals end with it.)
Raise(p, e) ==
    /\ IF Caught(e)
       THEN /\ pc' = [pc EXCEPT ![p] = "done"]
            /\ result' = [result EXCEPT ![p] = ExceptResult(e)]
       ELSE /\ pc' = [pc EXCEPT ![p] = "raised"]
            /\ UNCHANGED result
    /\ local' = [local EXCEPT ![p] = NoLocal]

\* The handler ends at its return statement.  (Of its locals, prior is kept
\* with the result.)
Return(p, image_set_id) ==
    /\ pc' = [pc EXCEPT ![p] = "done"]
    /\ result' = [result EXCEPT ![p] =
           ReturnResult(local[p].study_id, local[p].import_job_id,
                        local[p].job_status, image_set_id)]
    /\ local' = [local EXCEPT ![p] = [NoLocal EXCEPT !.prior = local[p].prior]]

\* An invocation begins and reads the three fields of its event.  (prior
\* records the status the record has at that moment; the handler does not
\* read it.)
Begin(p, ev) ==
    /\ pc[p] = "idle"
    /\ IF ev.complete
       THEN /\ pc' = [pc EXCEPT ![p] = "get_job"]
            /\ local' = [local EXCEPT ![p] =
                   [study_id |-> ev.study_id, import_job_id |-> ev.import_job_id,
                    prior |-> Attr(store, ev.study_id, "status"),
                    job_status |-> None, outputS3Uri |-> EmptyUri]]
            /\ UNCHANGED result
       ELSE Raise(p, "KeyError")
    /\ UNCHANGED <<store, jobs, workflows, nextId, lastSubmit, scan>>

\* Poll invoked by any caller, with any event.
PollStart(p, ev) ==
    /\ polls < MaxPolls
    /\ polls' = polls + 1
    /\ Begin(p, ev)

\* Poll invoked by an execution Submit started: its event is the input
\* trigger_workflow gave the execution.
WorkflowPoll(p, w) ==
    /\ w \in workflows
    /\ Begin(p, [study_id |-> w.study_id, import_job_id |-> w.import_job_id,
                 complete |-> TRUE])
    /\ UNCHANGED polls

\* get_dicom_import_job and the read of jobStatus.  The call raises for a
\* job the service does not know, and may raise for any other reason; the
\* response may lack outputS3Uri (kept only for the branch that reads it).
PollGetJob(p, fails, hasUri) ==
    /\ pc[p] = "get_job"
    /\ IF fails \/ local[p].import_job_id \notin DOMAIN jobs
       THEN Raise(p, "ClientError")
       ELSE LET job == jobs[local[p].import_job_id]
            IN  /\ local' = [local EXCEPT
                       ![p].job_status = job.jobStatus,
                       ![p].outputS3Uri =
                           IF hasUri /\ job.jobStatus = "COMPLETED"
                           THEN job.outputS3Uri ELSE EmptyUri]
                /\ pc' = [pc EXCEPT ![p] = "update_status"]
                /\ UNCHANGED result
    /\ UNCHANGED <<store, jobs, workflows, nextId, lastSubmit, polls, scan>>

\* The first update_item: SET import_status = :status.  Unless the job is
\* COMPLETED the handler returns after it.
PollUpdateStatus(p, fails) ==
    /\ pc[p] = "update_status"
    /\ IF fails
       THEN /\ Raise(p, "ClientError")
            /\ UNCHANGED store
       ELSE /\ store' = UpdateItem(store, local[p].study_id,
                                   [import_status |-> local[p].job_status])
            /\ IF local[p].job_status = "COMPLETED"
               THEN /\ pc' = [pc EXCEPT ![p] = "update_ready"]
                    /\ UNCHANGED <<local, result>>
               ELSE Return(p, None)
    /\ UNCHANGED <<jobs, workflows, nextId, lastSubmit, polls, scan>>

\* .split('/')[-2]: the field before the last, IndexError when there are
\* fewer than two fields.
ImageSetId(uri) ==
    LET fields == Split(uri)
    IN  IF Len(fields) < 2 THEN None ELSE fields[Len(fields) - 1]

\* SET image_set_id = :id alone, status left as it was.
ReadyUpdateIdOnly(image_set_id) == [image_set_id |-> image_set_id]

\* UpdateExpression 'SET image_set_id = :id, #st = :status' with :status
\* 'READY_FOR_ANALYSIS': both attributes in one update_item.
ReadyUpdate(image_set_id) ==
    [image_set_id |-> image_set_id, status |-> "READY_FOR_ANALYSIS"]

\* The COMPLETED branch: the image set id is cut out of outputS3Uri and the
\* second update_item sets it together with status.
PollUpdateReady(p, fails) ==
    /\ pc[p] = "update_ready"
    /\ LET image_set_id == ImageSetId(local[p].outputS3Uri)
       IN  IF Len(Split(local[p].outputS3Uri)) < 2
           THEN /\ Raise(p, "IndexError")
                /\ UNCHANGED store
           ELSE IF fails
           THEN /\ Raise(p, "ClientError")
                /\ UNCHANGED store
           ELSE /\ store' = UpdateItem(store, local[p].study_id,
                                       ReadyUpdate(image_set_id))
                /\ Return(p, image_set_id)
    /\ UNCHANGED <<jobs, workflows, nextId, lastSubmit, polls, scan>>

\* The caller has taken the result; the slot is free for the next invocation.
PollReset(p) ==
    /\ pc[p] \in {"done", "raised"}
    /\ pc' = [pc EXCEPT ![p] = "idle"]
    /\ local' = [local EXCEPT ![p] = NoLocal]
    /\ result' = [result EXCEPT ![p] = NoResult]
    /\ UNCHANGED <<store, jobs, workflows, nextId, lastSubmit, polls, scan>>

\* -------------------------------------------------------- specification

\* Submit and the delivery of its response are one invocation: nothing is
\* interleaved between the two.
Quiet == lastSubmit = NoSubmit

Next ==
    \/ SubmitReturn
    \/ \E req \in Requests, exists \in BOOLEAN, fault \in SubmitFaults :
          Submit(req, exists, fault)
    \/ \E j \in JobIds, st \in FinalStatus \cup {"IN_PROGRESS"} : Quiet /\ JobProgress(j, st)
    \/ \E p \in Pollers, ev \in Events : Quiet /\ PollStart(p, ev)
    \/ \E p \in Pollers, fails \in BOOLEAN, hasUri \in BOOLEAN :
          Quiet /\ PollGetJob(p, fails, hasUri)
    \/ \E p \in Pollers, fails \in BOOLEAN : Quiet /\ PollUpdateStatus(p, fails)
    \/ \E p \in Pollers, fails \in BOOLEAN : Quiet /\ PollUpdateReady(p, fails)
    \/ \E p \in Pollers : Quiet /\ PollReset(p)

Spec == Init /\ [][Next]_vars

\* The deployed system: Poll is invoked by the executions Submit started and
\* by nothing else, as often as the workflow engine pleases.
LiveNext ==
    \/ SubmitReturn
    \/ \E req \in Requests, exists \in BOOLEAN, fault \in SubmitFaults :
          Submit(req, exists, fault)
    \/ \E j \in JobIds, st \in FinalStatus \cup {"IN_PROGRESS"} : Quiet /\ JobProgress(j, st)
    \/ \E p \in Pollers, w \in workflows : Quiet /\ WorkflowPoll(p, w)
    \/ \E p \in Pollers, fails \in BOOLEAN, hasUri \in BOOLEAN :
          Quiet /\ PollGetJob(p, fails, hasUri)
    \/ \E p \in Pollers, fails \in BOOLEAN : Quiet /\ PollUpdateStatus(p, fails)
    \/ \E p \in Pollers, fails \in BOOLEAN : Quiet /\ PollUpdateReady(p, fails)
    \/ \E p \in Pollers : Quiet /\ PollReset(p)

\* The engine keeps invoking Poll for every execution, every invocation runs
\* to its end, and each remote call succeeds again and again.
Fairness ==
    /\ WF_vars(SubmitReturn)
    /\ \A p \in Pollers :
          /\ WF_vars(Quiet /\ PollReset(p))
          /\ WF_vars(Quiet /\ \E w \in workflows : WorkflowPoll(p, w))
          /\ WF_vars(Quiet /\ \E fails \in BOOLEAN, hasUri \in BOOLEAN : PollGetJob(p, fails, hasUri))
          /\ WF_vars(Quiet /\ \E fails \in BOOLEAN : PollUpdateStatus(p, fails))
          /\ WF_vars(Quiet /\ \E fails \in BOOLEAN : PollUpdateReady(p, fails))
          /\ SF_vars(Quiet /\ PollGetJob(p, FALSE, TRUE))
          /\ SF_vars(Quiet /\ PollUpdateStatus(p, FALSE))
          /\ SF_vars(Quiet /\ PollUpdateReady(p, FALSE))

LiveSpec == Init /\ [][LiveNext]_vars /\ Fairness

\* ------------------------------------------------ image analysis script

\* A data element the file may hold or not: {} when it is absent, {v} when
\* it is there with value v.  dicom.get(key, default).
Get(dicom, key, default) ==
    IF dicom[key] = {} THEN default ELSE CHOOSE v \in dicom[key] : TRUE

\* SeriesDescription is searched and case-folded, so it is its sequence of
\* characters.  The default of dicom.get('SeriesDescription', 'Unknown'):
UnknownChars == <<"U", "n", "k", "n", "o", "w", "n">>
HEAD == <<"H", "E", "A", "D">>
BRAIN == <<"B", "R", "A", "I", "N">>
PLAIN == <<"P", "L", "A", "I", "N">>

\* The series descriptions tried: '', 'CHEST', 'Head CT', 'brain', 'PLAIN',
\* 'Plain', 'PLAIN HEAD'.
SeriesDescriptions ==
    { <<>>,
      <<"C", "H", "E", "S", "T">>,
      <<"H", "e", "a", "d", " ", "C", "T">>,
      <<"b", "r", "a", "i", "n">>,
      PLAIN,
      <<"P", "l", "a", "i", "n">>,
      PLAIN \o <<" ">> \o HEAD }

\* str.upper(), on the letters that occur.
UpperChar(c) ==
    CASE c = "a" -> "A" [] c = "b" -> "B" [] c = "d" -> "D" [] c = "e" -> "E"
      [] c = "i" -> "I" [] c = "k" -> "K" [] c = "l" -> "L" [] c = "n" -> "N"
      [] c = "o" -> "O" [] c = "r" -> "R" [] c = "w" -> "W" [] OTHER -> c
Upper(s) == [i \in 1..Len(s) |-> UpperChar(s[i])]

\* `sub in s` on strings: s has sub as a substring.
In(sub, s) ==
    \E i \in 1..Len(s) : i + Len(sub) - 1 <= Len(s)
                         /\ SubSeq(s, i, i + Len(sub) - 1) = sub

\* The pixel grid, by its shape and 4 x 4 blocks: block <<i, j>> stands for
\* the pixels of rows (i-1)*rows/4 .. i*rows/4 - 1 and columns
\* (j-1)*cols/4 .. j*cols/4 - 1, all of one value.  The four middle blocks
\* hold `centre`, the twelve around them `border`.
Blocks == 1..4
PixelArray(rows, cols, border, centre) ==
    [shape |-> <<rows, cols>>,
     block |-> [i \in Blocks |-> [j \in Blocks |->
                  IF i \in {2, 3} /\ j \in {2, 3}
                  THEN centre[2 * (i - 2) + (j - 1)] ELSE border]]]

\* The slice n//4 : 3*n//4 of an axis of n pixels, as the blocks whose
\* pixels all lie in it.
CenterSlice(n) ==
    {b \in Blocks : /\ n \div 4 <= (b - 1) * (n \div 4)
                    /\ b * (n \div 4) <= (3 * n) \div 4}

RECURSIVE SumOver(_, _)
SumOver(f, S) ==
    IF S = {} THEN 0
    ELSE LET x == CHOOSE y \in S : TRUE IN f[x] + SumOver(f, S \ {x})

\* np.mean(pixel_array[rows//4:3*rows//4, cols//4:3*cols//4]) as the
\* fraction total / n over the blocks of the crop (the blocks of a grid are
\* of one size).
MeanIntensity(pixel_array) ==
    LET crop == CenterSlice(pixel_array.shape[1])
                    \X CenterSlice(pixel_array.shape[2])
        value == [c \in crop |-> pixel_array.block[c[1]][c[2]]]
    IN  [total |-> SumOver(value, crop), n |-> Cardinality(crop)]

\* mean > t and mean < t.
Above(mean, t) == mean.total > t * mean.n
Below(mean, t) == mean.total < t * mean.n

\* The guess from the mean intensity of the crop and the shape.
StatisticGuess(mean_intensity, rows, cols) ==
    IF Above(mean_intensity, 20) /\ Below(mean_intensity, 80)
       /\ rows = 512 /\ cols = 512
    THEN "BRAIN/HEAD"
    ELSE IF Above(mean_intensity, 100) THEN "BONE/SKULL"
    ELSE IF Below(mean_intensity, 20) THEN "SOFT TISSUE"
    ELSE "Unknown"

\* "Check DICOM tags": BodyPartExamined, then the words of the series
\* description, else the guess stays.
TagOverride(guess, body_part, series_desc, rows) ==
    IF body_part # "Unknown" THEN body_part
    ELSE IF In(HEAD, Upper(series_desc)) \/ In(BRAIN, Upper(series_desc))
    THEN "BRAIN/HEAD"
    ELSE IF In(PLAIN, Upper(series_desc)) /\ rows = 512 THEN "BRAIN/HEAD"
    ELSE guess

\* Every modality is analysed.
AnyModality(modality) == TRUE

\* `if modality == 'CT'`
IsCT(modality) == modality = "CT"

\* The files tried.  Rows and columns are multiples of four; the values of
\* the middle blocks put the mean of the crop below, at, between and above
\* the thresholds (10, 20, 50, 80, 90, 100, 150).
Modalities == {{}, {"CT"}, {"MR"}}
BodyParts == {{}, {""}, {"CHEST"}}
GridSizes == {256, 512}
Borders == {0, 200}
Centres == { <<10, 10, 10, 10>>, <<0, 40, 40, 0>>, <<50, 50, 50, 50>>,
             <<60, 100, 60, 100>>, <<90, 90, 90, 90>>,
             <<100, 100, 100, 100>>, <<150, 150, 150, 150>> }

\* pydicom.dcmread has parsed the file: the script stands before "Extract
\* metadata".
Loaded(modality, body_part, series_desc, pixel_array) ==
    [pc |-> "loaded",
     dicom |-> [Modality |-> modality, BodyPartExamined |-> body_part,
                SeriesDescription |-> series_desc,
                pixel_array |-> pixel_array]]

\* The script from "Extract metadata" to its end.  detected_body_part is
\* assigned in the CT branch only, and dicom.pixel_array is evaluated there
\* only.
Classify ==
    /\ scan.pc = "loaded"
    /\ LET dicom == scan.dicom
           modality == Get(dicom, "Modality", "Unknown")
           body_part == Get(dicom, "BodyPartExamined", "Unknown")
           series_desc == Get(dicom, "SeriesDescription", UnknownChars)
           rows == dicom.pixel_array.shape[1]
           cols == dicom.pixel_array.shape[2]
           guess == StatisticGuess(MeanIntensity(dicom.pixel_array), rows, cols)
       IN  scan' = [pc |-> "done",
                    dicom |-> dicom,
                    modality |-> modality,
                    pixel_array_read |-> IsCT(modality),
                    detected_body_part |->
                        IF IsCT(modality)
                        THEN TagOverride(guess, body_part, series_desc, rows)
                        ELSE None]
    /\ UNCHANGED <<store, jobs, workflows, nextId, lastSubmit, pc, local,
                   result, polls>>

\* One run of the script on one file, beside an idle ingestion.
ClassifyInit ==
    /\ Idle
    /\ \E modality \in Modalities, body_part \in BodyParts,
          series_desc \in {{}} \cup {{d} : d \in SeriesDescriptions},
          rows \in GridSizes, cols \in GridSizes,
          border \in Borders, centre \in Centres :
          scan = Loaded(modality, body_part, series_desc,
                        PixelArray(rows, cols, border, centre))

ClassifyNext == Classify

ClassifySpec == ClassifyInit /\ [][ClassifyNext]_vars

\* ---------------------------------------------------------------- claims

\* The status of the record of study s, None when it has none.
Status(s) == Attr(store, s, "status")
Terminal == {"READY_FOR_ANALYSIS", "FAILED"}

\* In this step invocation p's second update_item returned without raising:
\* the table applied SET image_set_id, status.
AppliesReady(p) ==
    /\ pc[p] = "update_ready"
    /\ pc'[p] = "done"
    /\ "error" \notin DOMAIN result'[p]

\* In this step invocation p returned from the try block right after its
\* first update_item.
ReturnsAfterStatus(p) ==
    /\ pc[p] = "update_status"
    /\ pc'[p] = "done"
    /\ "error" \notin DOMAIN result'[p]

\* This step is a Submit invocation, start to return.
SubmitStep == lastSubmit = NoSubmit /\ lastSubmit' # NoSubmit

\* Invocation p has returned is_complete for study s, having begun when the
\* record's status was among sts.
Completed(p, s, sts) ==
    /\ pc[p] = "done"
    /\ "error" \notin DOMAIN result[p]
    /\ result[p].study_id = s
    /\ result[p].is_complete
    /\ local[p].prior \in sts

\* C1: of two overlapping Poll invocations for the same study that both
\* began with the record IMPORTING and both saw the job COMPLETED, at most
\* one has its transition write applied (an invocation returns is_complete
\* only after the table applied its write); the other's is rejected.
C1_OneTransitionApplied ==
    \A s \in StudyIds : \A p, q \in Pollers :
        p # q => ~(Completed(p, s, {"IMPORTING"}) /\ Completed(q, s, {"IMPORTING"}))

\* C2: a Poll that began with the record terminal writes no image_set_id,
\* and two such Polls of a study return the same job status.
C2_TerminalIdempotent ==
    /\ [][\A p \in Pollers : local[p].prior \in Terminal => ~AppliesReady(p)]_vars
    /\ [](\A p, q \in Pollers :
            (/\ pc[p] = "done" /\ pc[q] = "done"
             /\ "error" \notin DOMAIN result[p] /\ "error" \notin DOMAIN result[q]
             /\ result[p].study_id = result[q].study_id
             /\ local[p].prior \in Terminal /\ local[q].prior \in Terminal)
            => result[p].job_status = result[q].job_status)

\* The transitions of section 4.1; a record comes into being SUBMITTED or
\* IMPORTING.
Edges == {<<None, "SUBMITTED">>, <<None, "IMPORTING">>,
          <<"SUBMITTED", "IMPORTING">>, <<"IMPORTING", "READY_FOR_ANALYSIS">>,
          <<"IMPORTING", "FAILED">>, <<"SUBMITTED", "FAILED">>}

\* C3: every step leaves each record's status as it is or moves it along an
\* edge of the graph, and a write of READY_FOR_ANALYSIS is applied only to a
\* record whose status is IMPORTING.
C3_LegalTransitions ==
    [][/\ \A s \in StudyIds :
             Status(s)' = Status(s) \/ <<Status(s), Status(s)'>> \in Edges
       /\ \A p \in Pollers :
             AppliesReady(p) => Status(local[p].study_id) = "IMPORTING"]_vars

\* C4: a Poll that finds the job FAILED or CANCELLED while the record is
\* IMPORTING leaves the record FAILED, with an error detail.
C4_FailurePersisted ==
    [][\A p \in Pollers :
          (/\ ReturnsAfterStatus(p)
           /\ local[p].job_status \in {"FAILED", "CANCELLED"}
           /\ Status(local[p].study_id) = "IMPORTING")
          => /\ Attr(store', local[p].study_id, "status") = "FAILED"
             /\ Attr(store', local[p].study_id, "error") # None]_vars

\* C5: no Poll invocation ends with an exception reaching its caller, and
\* one that failed at some step returns job status ERROR, has_error true,
\* is_complete false.
C5_PollFailsSoft ==
    \A p \in Pollers :
        /\ pc[p] # "raised"
        /\ (pc[p] = "done" /\ "error" \in DOMAIN result[p])
           => /\ result[p].job_status = "ERROR"
              /\ result[p].has_error = TRUE
              /\ result[p].is_complete = FALSE

\* C5's case: invocations have ended on a failure of each kind the handler
\* can meet (a missing event field, a remote call, the output location).
C5_Witness ==
    \E p, q \in Pollers :
        /\ pc[p] = "done" /\ "error" \in DOMAIN result[p]
        /\ result[p].error = "IndexError"
        /\ pc[q] = "done" /\ "error" \in DOMAIN result[q]
        /\ result[q].error \in {"KeyError", "ClientError"}

\* The job of execution w has ended with a status of the spec's vocabulary.
JobEnded(s) ==
    \E w \in workflows :
        /\ w.study_id = s
        /\ w.import_job_id \in DOMAIN jobs
        /\ jobs[w.import_job_id].jobStatus \in {"COMPLETED", "FAILED", "CANCELLED"}

\* No Poll invocation has just ended in its except branch.
NoPollError ==
    \A p \in Pollers : ~(pc[p] = "done" /\ "error" \in DOMAIN result[p])

\* C6: if Poll invocations fail only finitely often, then once the job of a
\* study has ended, the study's record reaches a terminal status and keeps
\* it.
C6_EventuallyTerminal ==
    \A s \in StudyIds :
        <>[]NoPollError => (JobEnded(s) ~> [](Status(s) \in Terminal))

\* The request of the last Submit gave both required fields.
ValidRequest(sub) ==
    /\ sub.body = "object"
    /\ sub.patient_id \notin {None, ""}
    /\ sub.file_key \notin {None, ""}

\* C7: a valid Submit whose source object exists leaves a record of its
\* study: IMPORTING when the import job was started, FAILED when it was not.
C7_SubmitLeavesRecord ==
    [][(SubmitStep /\ ValidRequest(lastSubmit') /\ lastSubmit'.head = "found")
       => LET s == lastSubmit'.study_id
          IN  /\ s \in DOMAIN store'
              /\ \/ jobs' # jobs /\ Attr(store', s, "status") = "IMPORTING"
                 \/ jobs' = jobs /\ Attr(store', s, "status") = "FAILED"]_vars

\* C8: a Submit whose body lacks patient_id or file_key, or gives an empty
\* one, answers 400 and leaves table, import service and workflow engine as
\* they were.
C8_InvalidRejected ==
    [][(SubmitStep /\ lastSubmit'.body \in {"absent", "object"}
                   /\ ~ValidRequest(lastSubmit'))
       => /\ lastSubmit'.statusCode = 400
          /\ UNCHANGED <<store, jobs, workflows>>]_vars

\* C8's case: an empty patient_id beside a given file_key has been rejected.
C8_Witness ==
    /\ lastSubmit.body = "object"
    /\ lastSubmit.patient_id = ""
    /\ lastSubmit.file_key \notin {None, ""}
    /\ lastSubmit.statusCode = 400

\* C9: a valid Submit whose source object is not in the bucket answers 404
\* and leaves table, import service and workflow engine as they were.
C9_MissingObjectRejected ==
    [][(SubmitStep /\ ValidRequest(lastSubmit') /\ lastSubmit'.head = "missing")
       => /\ lastSubmit'.statusCode = 404
          /\ UNCHANGED <<store, jobs, workflows>>]_vars

\* C9's case: a valid request for an object the bucket does not hold.
C9_Witness ==
    /\ ValidRequest(lastSubmit)
    /\ lastSubmit.head = "missing"
    /\ lastSubmit.statusCode = 404

\* C10: a record that is READY_FOR_ANALYSIS has a classification.
C10_ReadyIsClassified ==
    \A s \in StudyIds :
        Status(s) = "READY_FOR_ANALYSIS" => Attr(store, s, "classification") # None

\* C11: a record has image_set_id only if its status is READY_FOR_ANALYSIS,
\* and has classification only if its status is READY_FOR_ANALYSIS.
C11_SetOnlyWhenReady ==
    \A s \in DOMAIN store :
        (\/ Attr(store, s, "image_set_id") # None
         \/ Attr(store, s, "classification") # None)
            => Status(s) = "READY_FOR_ANALYSIS"

\* C11's case: a record created by Submit has got its image_set_id from a
\* Poll of its completed job.
C11_Witness ==
    \E s \in DOMAIN store :
        /\ Attr(store, s, "import_job_id") # None
        /\ Attr(store, s, "image_set_id") # None
        /\ Attr(store, s, "import_status") = "COMPLETED"

\* C12: only a Submit adds a record to the table; a Poll for a study_id the
\* table has no item for adds none.  (The table holds one item per key, so
\* there is never more than one record per study_id.)
C12_OnlySubmitInserts ==
    [][\A s \in StudyIds :
          (s \notin DOMAIN store /\ s \in DOMAIN store') => SubmitStep]_vars

\* The raw job statuses of section 4.2: every other value is unknown.
KnownStatus == {"SUBMITTED", "IN_PROGRESS", "COMPLETED", "FAILED", "CANCELLED"}

\* C13: a Poll that saw a raw status outside KnownStatus returns it as
\* FAILED with has_error true and is_complete false and does not make the
\* record READY_FOR_ANALYSIS; a Poll returns is_complete true only when the
\* raw status it saw is COMPLETED.
C13_UnknownFailsClosed ==
    [][\A p \in Pollers :
          /\ (ReturnsAfterStatus(p) /\ local[p].job_status \notin KnownStatus)
                => /\ result'[p].job_status = "FAILED"
                   /\ result'[p].has_error
                   /\ ~result'[p].is_complete
          /\ AppliesReady(p) => local[p].job_status = "COMPLETED"
          /\ ((ReturnsAfterStatus(p) \/ AppliesReady(p)) /\ result'[p].is_complete)
                => local[p].job_status = "COMPLETED"]_vars

\* The script has run on a file whose Modality is CT.
ClassifiedCT == scan.pc = "done" /\ scan.dicom.Modality = {"CT"}

\* The file has a BodyPartExamined that is not the empty string.
TagGiven == scan.dicom.BodyPartExamined \notin {{}, {""}}

\* The series description of the file, '' when it has none, has the word.
Keyword(word) == In(word, Upper(Get(scan.dicom, "SeriesDescription", <<>>)))

\* C14: for a CT image, a region tag that is present and not empty is the
\* region, whatever the statistic guess; with the tag absent or empty a
\* series description with HEAD or BRAIN in any case makes the region
\* BRAIN/HEAD; with no tag, none of the keywords and no statistic guess
\* the region is "Unknown".
C14_LayeredPrecedence ==
    ClassifiedCT =>
        /\ TagGiven => {scan.detected_body_part} = scan.dicom.BodyPartExamined
        /\ (~TagGiven /\ (Keyword(HEAD) \/ Keyword(BRAIN)))
              => scan.detected_body_part = "BRAIN/HEAD"
        /\ (/\ ~TagGiven
            /\ ~Keyword(HEAD) /\ ~Keyword(BRAIN) /\ ~Keyword(PLAIN)
            /\ StatisticGuess(MeanIntensity(scan.dicom.pixel_array),
                              scan.dicom.pixel_array.shape[1],
                              scan.dicom.pixel_array.shape[2]) = "Unknown")
              => scan.detected_body_part = "Unknown"

\* C15: for a CT image with no region tag whose series description has
\* PLAIN and neither HEAD nor BRAIN, the region is BRAIN/HEAD when the grid
\* is 512 rows by 512 columns, and the statistic guess for every other
\* shape.
C15_PlainNeedsFullGrid ==
    (/\ ClassifiedCT
     /\ scan.dicom.BodyPartExamined = {}
     /\ Keyword(PLAIN) /\ ~Keyword(HEAD) /\ ~Keyword(BRAIN))
    => LET shape == scan.dicom.pixel_array.shape
       IN  scan.detected_body_part =
               IF shape = <<512, 512>>
               THEN "BRAIN/HEAD"
               ELSE StatisticGuess(MeanIntensity(scan.dicom.pixel_array),
                                   shape[1], shape[2])

\* The script has run on a file whose Modality is not CT, or is absent.
ClassifiedNotCT == scan.pc = "done" /\ scan.dicom.Modality # {"CT"}

QueriesJob(p) == pc[p] = "get_job" /\ pc'[p] # "get_job"

\* In this step invocation p's first update_item returned without raising:
\* the table applied SET import_status.
AppliesStatus(p) ==
    /\ pc[p] = "update_status"
    /\ pc'[p] # "update_status"
    /\ "error" \notin DOMAIN result'[p]

\* C17: a Poll that began with the record READY_FOR_ANALYSIS or FAILED
\* returns without a query of the import job and without a write to the
\* table.
C17_TerminalPollReturnsAtOnce ==
    [][\A p \in Pollers :
          local[p].prior \in Terminal
             => ~QueriesJob(p) /\ ~AppliesStatus(p) /\ ~AppliesReady(p)]_vars

\* C18: a Submit that answers anything but 202 has added no record to
\* the table and has started no import job.
C18_FailedSubmitLeavesNothing ==
    [][(SubmitStep /\ lastSubmit'.statusCode # 202)
          => /\ DOMAIN store' = DOMAIN store
             /\ DOMAIN jobs' = DOMAIN jobs]_vars

\* C19: a Poll makes a record READY_FOR_ANALYSIS only when the job named
\* by that record's own import_job_id is COMPLETED, never on a job that
\* only its event names.
C19_ReadyOnOwnJob ==
    [][\A p \in Pollers :
          AppliesReady(p)
             => LET own == Attr(store, local[p].study_id, "import_job_id")
                IN  /\ own \in DOMAIN jobs
                    /\ jobs[own].jobStatus = "COMPLETED"]_vars

====
